---- MODULE Spec2Model ----
(***************************************************************************)
(* Model of the two ROS nodes of hsa_planar_control:                       *)
(*   - ModelBasedControlNode   (ros_nodes/model_based_control_node.py)     *)
(*   - StaticInversionPlanningNode                                         *)
(*                         (ros_nodes/static_inversion_planning_node.py)   *)
(*                                                                         *)
(* Numbers.  The program computes with float64.  The model uses integers:  *)
(* configurations are counted in units of 0.01, optimality errors in units *)
(* of 1e-4, time stamps in clock ticks.  Every operation the model applies *)
(* to them (sign flips, a sum of two values, halving an even value,        *)
(* comparisons) is exact in float64 as well.                               *)
(*                                                                         *)
(* Each rclpy node runs a single-threaded executor: the callbacks of one   *)
(* node never overlap, so every callback is one atomic action.             *)
(***************************************************************************)
EXTENDS Integers, Sequences, FiniteSets, TLC

VARIABLES
    \* ---- ModelBasedControlNode ----
    rod_handedness,      \* self.rod_handedness (4 signs, from the actuation base node)
    control_handedness,  \* self.params["h"][0] (2 signs)
    controller_type,     \* the controller_type parameter
    init_error,          \* what __init__ raised ("none" when it returned)
    control_timer,       \* whether self.control_timer was created
    q,                   \* self.q
    q_d,                 \* self.q_d
    t_hs,                \* self.t_hs
    q_hs,                \* self.q_hs
    q_des,               \* self.q_des
    chiee_des,           \* self.chiee_des
    phi_ss,              \* self.phi_ss
    setpoint_msg,        \* self.setpoint_msg
    controller_state,    \* self.controller_state["integral_error"]
    n_meas,              \* measurement callbacks run so far, counted up to HistLen
    cycles,              \* control cycles completed
    motor_cmds,          \* calls of set_motor_goal_angles so far
    nonzero_received,    \* measurements with a non-zero stamp received so far
    nonzero_run,         \* the latest measurements in a row with a non-zero stamp
    op,                  \* the handler that ran last
    arg,                 \* the message that handler received (NoMsg for the timer)
    log,                 \* what that handler did to the outside, in order
    \* ---- StaticInversionPlanningNode ----
    hsa_material,        \* the hsa_material parameter
    setpoint_mode,       \* the setpoint_mode parameter
    image_type,          \* the image_type parameter as configured
    plan_init_error,     \* what __init__ raised ("none" when it returned)
    plan_timer,          \* whether self.timer was created
    planning_strategy,   \* self.planning_fn: the solver bound and its maxiter
    plan_params,         \* self.params: the parameter set in use
    target_list,         \* self.pee_des_sps as the node holds it
    setpoint_idx,        \* self.setpoint_idx
    attempted,           \* the solves made so far, one entry per tick
    ticks,               \* timer_callback runs completed
    plan_log,            \* what the last timer_callback did, in order
    \* ---- coordinate mapper exercised on its own ----
    map_op,              \* which round trip was applied
    map_in,              \* its input
    map_mid,             \* the intermediate vector
    map_out              \* its result

ctrl_vars == <<q, q_d, t_hs, q_hs, q_des, chiee_des, phi_ss, setpoint_msg,
               controller_state, n_meas, cycles, motor_cmds, op, arg, log>>
hand_vars == <<rod_handedness, control_handedness>>
node_vars == <<controller_type, init_error, control_timer>>
seen_vars == <<nonzero_received, nonzero_run>>
plan_cfg_vars ==
    <<hsa_material, setpoint_mode, image_type, plan_init_error, plan_timer,
      planning_strategy, plan_params, target_list>>
plan_vars == <<plan_cfg_vars, setpoint_idx, attempted, ticks, plan_log>>
map_vars  == <<map_op, map_in, map_mid, map_out>>
vars      == <<hand_vars, node_vars, ctrl_vars, seen_vars, plan_vars, map_vars>>

----------------------------------------------------------------------------
(* Bounds of the model *)

\* history_length_for_diff (N); the program's default is 16
HistLen == 3
\* control cycles explored
MaxCycles == 2

----------------------------------------------------------------------------
(* Plain helpers *)

Zero2 == <<0, 0>>
Zero3 == <<0, 0, 0>>
Signs == {-1, 1}
NoMsg == [none |-> TRUE]

\* x / 2 for the even values the model feeds it (exact, as in float64)
Half(x) == x \div 2

Abs(x) == IF x < 0 THEN -x ELSE x
Clip(x, lo, hi) == IF x < lo THEN lo ELSE IF x > hi THEN hi ELSE x

\* entries of a handler's log: a publication on a topic, a call of a
\* collaborator (control_fn, saturate_control_inputs), a read of the motor
\* interface, a motor goal command
Pub(topic, data) == [ev |-> "publish", name |-> topic, data |-> data]
Call(fn, args, ret) == [ev |-> "call", name |-> fn, data |-> [args |-> args, ret |-> ret]]
MotorRead(angles) == [ev |-> "read", name |-> "present_motor_angles", data |-> angles]
MotorGoal(angles) == [ev |-> "command", name |-> "set_motor_goal_angles", data |-> angles]

----------------------------------------------------------------------------
(* Inputs of the control node, drawn from small sets *)

\* PlanarCsConfiguration messages: header stamp and the three strains.  The
\* stamp is the sender's; 0 is the stamp that Time.from_msg turns into t = 0.0.
MeasurementMsgs ==
    { [stamp |-> 0, kappa_b |-> 1, sigma_sh |-> 2, sigma_a |-> 3],
      [stamp |-> 1, kappa_b |-> 4, sigma_sh |-> 5, sigma_a |-> 6],
      [stamp |-> 2, kappa_b |-> 1, sigma_sh |-> 2, sigma_a |-> 3] }

\* PlanarSetpoint messages arriving on the setpoint topic
SetpointMsgs ==
    { [q_des |-> [stamp |-> 5, kappa_b |-> 1, sigma_sh |-> 2, sigma_a |-> 3],
       chiee_des |-> [x |-> 4, y |-> 5, theta |-> 6],
       phi_ss |-> <<7, 8>>, optimality_error |-> 9],
      [q_des |-> [stamp |-> 6, kappa_b |-> 11, sigma_sh |-> 12, sigma_a |-> 13],
       chiee_des |-> [x |-> 14, y |-> 15, theta |-> 16],
       phi_ss |-> <<17, 18>>, optimality_error |-> 0] }

\* self.present_motor_angles as the motor interface reports them
MotorReads == { <<2, 2, 4, 4>>, <<2, 4, 0, -2>> }

\* handedness of the deployments explored by the control-node specification
ControlNodeHandedness ==
    { [rod |-> <<1, 1, 1, 1>>, control |-> <<1, 1>>],
      [rod |-> <<1, -1, -1, 1>>, control |-> <<-1, 1>>] }

\* what derivative.Spline(s=1.0, k=3).d(...)[-1] may return for the three
\* configuration variables (external library, left open)
DiffVals == { Zero3, <<1, -1, 2>> }

\* the node's clock: read at construction, then once in every control cycle
InitClock == 20 + 0
Now == 21 + cycles

----------------------------------------------------------------------------
(* Coordinate mapper *)

\* the mapping with the two control handedness signs taken in the other order
map_motor_angles_swapped_control_handedness(motor_angles) ==
    << Half(( motor_angles[3] * rod_handedness[3]
            + motor_angles[4] * rod_handedness[4] ) * control_handedness[2]),
       Half(( motor_angles[1] * rod_handedness[1]
            + motor_angles[2] * rod_handedness[2] ) * control_handedness[1]) >>

map_motor_angles_to_actuation_coordinates(motor_angles) ==
    << Half(( motor_angles[3] * rod_handedness[3]
            + motor_angles[4] * rod_handedness[4] ) * control_handedness[1]),
       Half(( motor_angles[1] * rod_handedness[1]
            + motor_angles[2] * rod_handedness[2] ) * control_handedness[2]) >>

\* the expansion giving both motors of a side the first rod's handedness
map_actuation_coordinates_one_rod_handedness(phi) ==
    << phi[2] * control_handedness[2] * rod_handedness[1],
       phi[2] * control_handedness[2] * rod_handedness[1],
       phi[1] * control_handedness[1] * rod_handedness[3],
       phi[1] * control_handedness[1] * rod_handedness[3] >>

map_actuation_coordinates_to_motor_angles(phi) ==
    << phi[2] * control_handedness[2] * rod_handedness[1],
       phi[2] * control_handedness[2] * rod_handedness[2],
       phi[1] * control_handedness[1] * rod_handedness[3],
       phi[1] * control_handedness[1] * rod_handedness[4] >>

----------------------------------------------------------------------------
(* Controller bank and saturator: code of the package that is not part of   *)
(* the two node files; modelled from the specification's contracts          *)
(*   control(t, q, q_d, phi, state, target) -> (phi_des, state')            *)
(*   saturate(params, phi_des, state)       -> (phi_sat, state')            *)

\* params["phi_max"]
PhiMax == 4

\* the results a controller variant may return (a pure function of its
\* arguments; which one is left open)
ControlOutputs ==
    { [phi_des |-> <<2, 2>>,  integral_error |-> <<1, 0>>],
      [phi_des |-> <<6, -2>>, integral_error |-> <<2, -2>>] }

control_fn(t, cq, cq_d, phi, state, pee_des, cq_des, cphi_ss) == ControlOutputs

\* bounded, monotone per coordinate; the accumulator of a coordinate whose
\* command exceeds the bound is shrunk towards zero
saturate_control_inputs(phi_des, state) ==
    [ phi_sat |-> [i \in 1..2 |-> Clip(phi_des[i], -PhiMax, PhiMax)],
      integral_error |->
          [i \in 1..2 |->
              IF Abs(phi_des[i]) > PhiMax /\ state[i] # 0
              THEN (IF state[i] > 0 THEN state[i] - 1 ELSE state[i] + 1)
              ELSE state[i]] ]

----------------------------------------------------------------------------
(* ModelBasedControlNode: construction *)

Q_DES_INIT == <<0, 0, 4>>

\* the PlanarSetpoint that __init__ fills from q_des, chiee_des and phi_ss
InitialSetpointMsg(stamp, qd, chiee, pss) ==
    [ q_des |-> [stamp |-> stamp, kappa_b |-> qd[1], sigma_sh |-> qd[2],
                 sigma_a |-> qd[3]],
      chiee_des |-> [x |-> chiee[1], y |-> chiee[2], theta |-> chiee[3]],
      phi_ss |-> pss,
      optimality_error |-> 0 ]

\* the warm-up evaluation keeps the state returned by the controller
warm_up_keeps_state(state, out) == out.integral_error

\* the warm-up evaluation of the controller in __init__:
\*     phi_des_dummy, _ = self.control_fn(..., controller_state=self.controller_state, ...)
\* yields the controller state the node holds afterwards
warm_up(state, out) == state

\* a warm-up that sends its dummy goal angles to the motors
warm_up_sends_dummy_goal(motor_goal_angles_dummy) ==
    << MotorGoal(motor_goal_angles_dummy) >>

\* the motor commands of the warm-up: motor_goal_angles_dummy is computed and
\* handed to nothing
warm_up_motor_commands(motor_goal_angles_dummy) == <<>>

\* the controller variants __init__ knows
ControllerTypes ==
    { "P_satI_D_collocated_form_plus_steady_state_actuation",
      "P_satI_D_collocated_form_plus_gravity_cancellation_elastic_compensation",
      "P_satI_D_plus_steady_state_actuation",
      "basic_operational_space_pid" }

\* the default of the controller_type parameter
DefaultControllerType == "P_satI_D_collocated_form_plus_steady_state_actuation"

\* values the controller_type parameter may be given
ControllerTypeInputs ==
    {DefaultControllerType, "basic_operational_space_pid", "P_I_D"}

\* a selection that falls back to the default variant for an unknown name
select_controller_with_fallback(ctype) ==
    [error |-> "none", control_timer |-> TRUE]

\* the if/elif chain over controller_type and what follows it in __init__:
\* an unknown name raises before create_timer is reached
select_controller(ctype) ==
    IF ctype \in ControllerTypes
    THEN [error |-> "none", control_timer |-> TRUE]
    ELSE [error |-> "NotImplementedError", control_timer |-> FALSE]

\* main constructs the node and only then enters rclpy.spin
Spinning == init_error = "none"

Startup_control_node(ctypes) ==
    /\ controller_type \in ctypes
    /\ init_error = select_controller(controller_type).error
    /\ control_timer = select_controller(controller_type).control_timer

Init_control_node ==
    /\ q = Zero3
    /\ q_d = Zero3
    /\ t_hs = [i \in 1..HistLen |-> 0]
    /\ q_hs = [i \in 1..HistLen |-> Zero3]
    /\ q_des = Q_DES_INIT
    /\ chiee_des = Zero3
    /\ phi_ss = Zero2
    /\ setpoint_msg = InitialSetpointMsg(InitClock, q_des, chiee_des, phi_ss)
    /\ \E motor \in MotorReads :
         \E out \in control_fn(0, q, q_d,
                               map_motor_angles_to_actuation_coordinates(motor),
                               Zero2, <<chiee_des[1], chiee_des[2]>>, q_des, phi_ss) :
            /\ controller_state = warm_up(Zero2, out)
            /\ motor_cmds =
                 IF Spinning
                 THEN Len(warm_up_motor_commands(
                          map_actuation_coordinates_to_motor_angles(out.phi_des)))
                 ELSE 0
    /\ n_meas = 0
    /\ nonzero_received = 0
    /\ nonzero_run = 0
    /\ cycles = 0
    /\ op = "init"
    /\ arg = NoMsg
    /\ log = <<>>

----------------------------------------------------------------------------
(* ModelBasedControlNode: subscription callbacks *)

\* jnp.roll(a, shift, axis=0): result[i] = a[(i - shift) mod n], i from 0
roll(a, shift) ==
    [i \in 1..Len(a) |-> a[((i - 1 - shift) % Len(a)) + 1]]

\* a.at[-1].set(v)
at_last_set(a, v) == [a EXCEPT ![Len(a)] = v]

\* the callback with the history rolled the other way
configuration_listener_callback_roll_forward(msg) ==
    LET t == msg.stamp
        new_q == <<msg.kappa_b, msg.sigma_sh, msg.sigma_a>>
    IN  /\ q' = new_q
        /\ t_hs' = at_last_set(roll(t_hs, 1), t)
        /\ q_hs' = at_last_set(roll(q_hs, 1), new_q)
        /\ n_meas' = IF n_meas < HistLen THEN n_meas + 1 ELSE n_meas
        /\ op' = "measurement"
        /\ arg' = msg
        /\ log' = <<>>
        /\ UNCHANGED <<q_d, q_des, chiee_des, phi_ss, setpoint_msg,
                       controller_state, cycles, motor_cmds>>

\* the callback appending to q_hs only and overwriting the newest stamp
configuration_listener_callback_stamps_in_place(msg) ==
    LET t == msg.stamp
        new_q == <<msg.kappa_b, msg.sigma_sh, msg.sigma_a>>
    IN  /\ q' = new_q
        /\ t_hs' = at_last_set(t_hs, t)
        /\ q_hs' = at_last_set(roll(q_hs, -1), new_q)
        /\ n_meas' = IF n_meas < HistLen THEN n_meas + 1 ELSE n_meas
        /\ op' = "measurement"
        /\ arg' = msg
        /\ log' = <<>>
        /\ UNCHANGED <<q_d, q_des, chiee_des, phi_ss, setpoint_msg,
                       controller_state, cycles, motor_cmds>>

configuration_listener_callback(msg) ==
    LET t == msg.stamp
        new_q == <<msg.kappa_b, msg.sigma_sh, msg.sigma_a>>
    IN  /\ q' = new_q
        /\ t_hs' = at_last_set(roll(t_hs, -1), t)
        /\ q_hs' = at_last_set(roll(q_hs, -1), new_q)
        /\ n_meas' = IF n_meas < HistLen THEN n_meas + 1 ELSE n_meas
        /\ op' = "measurement"
        /\ arg' = msg
        /\ log' = <<>>
        /\ UNCHANGED <<q_d, q_des, chiee_des, phi_ss, setpoint_msg,
                       controller_state, cycles, motor_cmds>>

\* the callback merging only the configuration target into the held setpoint
setpoint_listener_callback_partial(msg) ==
    /\ setpoint_msg' = msg
    /\ q_des' = <<msg.q_des.kappa_b, msg.q_des.sigma_sh, msg.q_des.sigma_a>>
    /\ op' = "setpoint"
    /\ arg' = msg
    /\ log' = <<>>
    /\ UNCHANGED <<q, q_d, t_hs, q_hs, chiee_des, phi_ss, controller_state,
                   n_meas, cycles, motor_cmds>>

\* the callback clearing the integral accumulator on a new setpoint
setpoint_listener_callback_resets_integrator(msg) ==
    /\ setpoint_msg' = msg
    /\ q_des' = <<msg.q_des.kappa_b, msg.q_des.sigma_sh, msg.q_des.sigma_a>>
    /\ chiee_des' = <<msg.chiee_des.x, msg.chiee_des.y, msg.chiee_des.theta>>
    /\ phi_ss' = msg.phi_ss
    /\ controller_state' = Zero2
    /\ op' = "setpoint"
    /\ arg' = msg
    /\ log' = <<>>
    /\ UNCHANGED <<q, q_d, t_hs, q_hs, n_meas, cycles, motor_cmds>>

setpoint_listener_callback(msg) ==
    /\ setpoint_msg' = msg
    /\ q_des' = <<msg.q_des.kappa_b, msg.q_des.sigma_sh, msg.q_des.sigma_a>>
    /\ chiee_des' = <<msg.chiee_des.x, msg.chiee_des.y, msg.chiee_des.theta>>
    /\ phi_ss' = msg.phi_ss
    /\ op' = "setpoint"
    /\ arg' = msg
    /\ log' = <<>>
    /\ UNCHANGED <<q, q_d, t_hs, q_hs, controller_state,
                   n_meas, cycles, motor_cmds>>

----------------------------------------------------------------------------
(* ModelBasedControlNode: the control cycle *)

AnyZero(ts) == \E i \in 1..Len(ts) : ts[i] = 0
AllZero(ts) == \A i \in 1..Len(ts) : ts[i] = 0

\* velocity estimation taking the fallback only while every slot is unset
compute_q_d_all(d) ==
    IF AllZero(t_hs)
    THEN [ret |-> q_d, pubs |-> <<>>]
    ELSE [ret |-> d, pubs |-> <<Pub("configuration_velocity", d)>>]

\* velocity estimation telling a full history by the number of measurements
compute_q_d_by_count(d) ==
    IF n_meas < HistLen
    THEN [ret |-> q_d, pubs |-> <<>>]
    ELSE [ret |-> d, pubs |-> <<Pub("configuration_velocity", d)>>]

\* compute_q_d; d is what the spline derivative yields for the three
\* configuration variables when it is evaluated
compute_q_d(d) ==
    IF AnyZero(t_hs)
    THEN [ret |-> q_d, pubs |-> <<>>]
    ELSE [ret |-> d, pubs |-> <<Pub("configuration_velocity", d)>>]

\* re-publication stamping the held message itself
republish_setpoint_in_place(now) ==
    [ held |-> [setpoint_msg EXCEPT !.q_des.stamp = now],
      sent |-> [setpoint_msg EXCEPT !.q_des.stamp = now] ]

\* setpoint_msg = deepcopy(self.setpoint_msg); stamp it; publish it
republish_setpoint(now) ==
    [ held |-> setpoint_msg,
      sent |-> [setpoint_msg EXCEPT !.q_des.stamp = now] ]

\* control inputs built from the oldest configuration held in the history
control_inputs_from_history(t, est_q_d, phi) ==
    [t |-> t, q |-> q_hs[1], q_d |-> est_q_d, phi |-> phi,
     controller_state |-> controller_state,
     pee_des |-> <<chiee_des[1], chiee_des[2]>>,
     q_des |-> q_des, phi_ss |-> phi_ss]

\* the arguments of self.control_fn(...), read from the node's fields at the
\* moment of the call
control_inputs(t, est_q_d, phi) ==
    [t |-> t, q |-> q, q_d |-> est_q_d, phi |-> phi,
     controller_state |-> controller_state,
     pee_des |-> <<chiee_des[1], chiee_des[2]>>,
     q_des |-> q_des, phi_ss |-> phi_ss]

\* a compensation that leaves the command as the controller returned it
handedness_compensation_skipped(phi_des) == phi_des

\* phi_des = self.params["h"].flatten() * phi_des
handedness_compensation(phi_des) ==
    [i \in 1..2 |-> control_handedness[i] * phi_des[i]]

\* the body of call_controller for a motor reading, a spline derivative d and
\* a controller result out: what it leaves in the node's fields and what it
\* does, in order
cycle_effect(motor, d, out) ==
    LET t == Now - InitClock
        est == compute_q_d(d)
        phi == map_motor_angles_to_actuation_coordinates(motor)
        rp == republish_setpoint(Now)
        phi_des == handedness_compensation(out.phi_des)
        sat == saturate_control_inputs(phi_des, out.integral_error)
        motor_goal_angles == map_actuation_coordinates_to_motor_angles(sat.phi_sat)
    IN  [ q_d |-> est.ret,
          controller_state |-> sat.integral_error,
          setpoint_msg |-> rp.held,
          log |-> << Call("compute_q_d", [t_hs |-> t_hs], est.ret) >>
                  \o est.pubs \o
                  << MotorRead(motor),
                     Pub("actuation_coordinates", phi),
                     Call("control_fn", control_inputs(t, est.ret, phi), out),
                     Pub("setpoint_in_control_loop", rp.sent),
                     Pub("unsaturated_control_input", phi_des),
                     Call("saturate_control_inputs",
                          [phi_des |-> phi_des,
                           controller_state |-> out.integral_error], sat),
                     Pub("saturated_control_input", sat.phi_sat),
                     MotorGoal(motor_goal_angles) >> ]

\* a cycle that commands the motors before publishing the saturated command
control_cycle_motors_first(motor, d, out) ==
    LET e == cycle_effect(motor, d, out)
        n == Len(e.log)
    IN  [e EXCEPT !.log = [k \in 1..n |->
                              IF k = n - 1 THEN e.log[n]
                              ELSE IF k = n THEN e.log[n - 1]
                              ELSE e.log[k]]]

\* a cycle that keeps the controller's state and drops the saturator's
control_cycle_keeps_controller_state(motor, d, out) ==
    [cycle_effect(motor, d, out) EXCEPT !.controller_state = out.integral_error]

control_cycle(motor, d, out) == cycle_effect(motor, d, out)

call_controller ==
    /\ control_timer
    /\ cycles < MaxCycles
    /\ \E motor \in MotorReads, d \in DiffVals :
         LET a == control_inputs(Now - InitClock, compute_q_d(d).ret,
                                 map_motor_angles_to_actuation_coordinates(motor))
         IN  \E out \in control_fn(a.t, a.q, a.q_d, a.phi, a.controller_state,
                                   a.pee_des, a.q_des, a.phi_ss) :
               LET e == control_cycle(motor, d, out)
               IN  /\ q_d' = e.q_d
                   /\ controller_state' = e.controller_state
                   /\ setpoint_msg' = e.setpoint_msg
                   /\ log' = e.log
                   /\ motor_cmds' = motor_cmds
                        + Len(SelectSeq(e.log, LAMBDA x : x.ev = "command"))
                   /\ cycles' = cycles + 1
                   /\ op' = "control"
                   /\ arg' = NoMsg
                   /\ UNCHANGED <<q, t_hs, q_hs, q_des, chiee_des, phi_ss, n_meas>>

----------------------------------------------------------------------------
(* StaticInversionPlanningNode *)

\* number of desired end-effector positions in self.pee_des_sps
NumTargets == 3
\* timer ticks explored; beyond NumTargets, so the index leaves the list
MaxTicks == 5

\* the threshold 1e-3 of timer_callback, in units of 1e-4
OptimalityThreshold == 10

\* self.pee_des_sps: a jax array of distinct 2D positions
pee_des_sps == [i \in 1..NumTargets |-> <<i, 100 + i>>]

\* a[i] of a jax array with a Python int i >= 0: jax clamps an index past
\* the end to the last row instead of raising
jax_getitem(a, i) == a[Clip(i, 0, Len(a) - 1) + 1]

\* self.planning_fn(pee_des=...): code of the package outside the node file,
\* modelled from the specification: the returned end-effector pose is at the
\* requested position; orientation, configuration, steady-state actuation
\* and optimality error are whatever the solve produced
planning_fn(pee_des) ==
    { [chiee_des |-> <<pee_des[1], pee_des[2], th>>, q_des |-> qd,
       phi_ss |-> ps, optimality_error |-> e] :
        th \in {0, 1}, qd \in {<<1, 2, 3>>, <<3, 1, 2>>},
        ps \in {<<7, 8>>, <<8, 7>>}, e \in {0, 10, 11, 500} }

\* the planner node's clock when the message is stamped
PlanNow == 40 + ticks

\* a gate that rejects from 1e-3 on
skip_setpoint_from_threshold(optimality_error) ==
    optimality_error >= OptimalityThreshold

\* a gate with the threshold 1e-2
skip_setpoint_loose(optimality_error) ==
    optimality_error > 10 * OptimalityThreshold

\* if optimality_error > 1e-3
skip_setpoint(optimality_error) == optimality_error > OptimalityThreshold

\* an index that wraps at the end of the list
advance_wrapping(idx) == (idx + 1) % NumTargets

\* self.setpoint_idx += 1
advance(idx) == idx + 1

\* the PlanarSetpoint built from the solver's result
planar_setpoint(res, stamp) ==
    [ q_des |-> [stamp |-> stamp, kappa_b |-> res.q_des[1],
                 sigma_sh |-> res.q_des[2], sigma_a |-> res.q_des[3]],
      chiee_des |-> [x |-> res.chiee_des[1], y |-> res.chiee_des[2],
                     theta |-> res.chiee_des[3]],
      phi_ss |-> res.phi_ss,
      optimality_error |-> res.optimality_error ]

Materials == {"fpu", "epu"}
SetpointModes == {"manual", "image"}
ImageTypes == {"star", "tud-flame", "mit-csail"}

\* values the three parameters may be given
MaterialInputs == Materials \cup {"tpu"}
SetpointModeInputs == SetpointModes \cup {"file"}
ImageTypeInputs == {"star", "bat"}

\* a start-up that treats every setpoint mode other than image as manual
planner_startup_manual_by_default(material, mode, image) ==
    IF material \notin Materials
    THEN [error |-> "ValueError: Unknown HSA material", timer |-> FALSE]
    ELSE IF mode = "image" /\ image \notin ImageTypes
    THEN [error |-> "ValueError: Unknown image type", timer |-> FALSE]
    ELSE [error |-> "none", timer |-> TRUE]

\* the checks of __init__ in the order it makes them; image_type is declared
\* and read in the image branch only
planner_startup(material, mode, image) ==
    IF material \notin Materials
    THEN [error |-> "ValueError: Unknown HSA material", timer |-> FALSE]
    ELSE IF mode = "manual"
    THEN [error |-> "none", timer |-> TRUE]
    ELSE IF mode = "image"
    THEN IF image \in ImageTypes
         THEN [error |-> "none", timer |-> TRUE]
         ELSE [error |-> "ValueError: Unknown image type", timer |-> FALSE]
    ELSE [error |-> "ValueError: Unknown setpoint mode", timer |-> FALSE]

\* self.planning_fn before __init__ binds it
NoStrategy == [solver |-> "unset", maxiter |-> 0]

\* a choice of solver that looks at the material only
select_planning_fn_by_material(material, mode) ==
    IF material = "fpu"
    THEN [solver |-> "scipy_rootfinding", maxiter |-> 10000]
    ELSE [solver |-> "projected_descent", maxiter |-> 10000]

\* the partial(...) bound to self.planning_fn for a supported material and
\* setpoint mode
select_planning_fn(material, mode) ==
    IF mode = "manual"
    THEN IF material = "fpu"
         THEN [solver |-> "scipy_rootfinding", maxiter |-> 10000]
         ELSE [solver |-> "projected_descent", maxiter |-> 10000]
    ELSE [solver |-> "projected_descent", maxiter |-> 250]

\* self.params = PARAMS_..._CONTROL.copy()
select_params(material) ==
    IF material = "fpu" THEN "PARAMS_FPU_CONTROL"
    ELSE IF material = "epu" THEN "PARAMS_EPU_CONTROL"
    ELSE "unset"

Startup_planner(materials, modes, images) ==
    /\ hsa_material \in materials
    /\ setpoint_mode \in modes
    /\ image_type \in images
    /\ plan_init_error = planner_startup(hsa_material, setpoint_mode, image_type).error
    /\ plan_timer = planner_startup(hsa_material, setpoint_mode, image_type).timer
    /\ plan_params = select_params(hsa_material)
    /\ planning_strategy =
          IF hsa_material \in Materials /\ setpoint_mode \in SetpointModes
          THEN select_planning_fn(hsa_material, setpoint_mode)
          ELSE NoStrategy
    /\ target_list =
          IF planner_startup(hsa_material, setpoint_mode, image_type).timer
          THEN pee_des_sps
          ELSE <<>>

Init_planner ==
    setpoint_idx = 0 /\ attempted = <<>> /\ ticks = 0 /\ plan_log = <<>>

timer_callback ==
    /\ plan_timer
    /\ ticks < MaxTicks
    /\ LET pee_des == jax_getitem(target_list, setpoint_idx)
       IN  \E res \in planning_fn(pee_des) :
             LET solve == Call("planning_fn",
                               [idx |-> setpoint_idx, pee_des |-> pee_des], res)
             IN  IF skip_setpoint(res.optimality_error)
                 THEN /\ setpoint_idx' = advance(setpoint_idx)
                      /\ plan_log' = <<solve>>
                 ELSE /\ plan_log' =
                           <<solve, Pub("setpoint", planar_setpoint(res, PlanNow))>>
                      /\ setpoint_idx' = advance(setpoint_idx)
    /\ \E res \in planning_fn(jax_getitem(target_list, setpoint_idx)) :
         /\ plan_log'[1].data.ret = res
         /\ attempted' = Append(attempted,
                [idx |-> setpoint_idx,
                 pee_des |-> jax_getitem(target_list, setpoint_idx),
                 rejected |-> skip_setpoint(res.optimality_error)])
    /\ ticks' = ticks + 1
    /\ UNCHANGED plan_cfg_vars

----------------------------------------------------------------------------
(* The coordinate mapper applied to inputs of its own *)

PhiInputs == [1..2 -> {-3, 0, 2, 5}]
\* motor angles are even numbers of units, so that halving them is exact
MotorInputs == [1..4 -> {-2, 0, 2}]

Init_mapper == map_op = "none" /\ map_in = <<>> /\ map_mid = <<>> /\ map_out = <<>>

round_trip_actuation ==
    \E phi \in PhiInputs :
        /\ map_op' = "actuation_motor_actuation"
        /\ map_in' = phi
        /\ map_mid' = map_actuation_coordinates_to_motor_angles(phi)
        /\ map_out' = map_motor_angles_to_actuation_coordinates(map_mid')

round_trip_motor ==
    \E m \in MotorInputs :
        /\ map_op' = "motor_actuation_motor"
        /\ map_in' = m
        /\ map_mid' = map_motor_angles_to_actuation_coordinates(m)
        /\ map_out' = map_actuation_coordinates_to_motor_angles(map_mid')

----------------------------------------------------------------------------
(* Specifications *)

\* the planning node at its parameter defaults
Default_planner ==
    Startup_planner({"fpu"}, {"manual"}, {"star"}) /\ Init_planner

\* the control node at its default controller, under any interleaving of its
\* three handlers
Init ==
    /\ \E h \in ControlNodeHandedness :
         /\ rod_handedness = h.rod
         /\ control_handedness = h.control
    /\ Startup_control_node({DefaultControllerType})
    /\ Init_control_node /\ Default_planner /\ Init_mapper

\* the measurements with a non-zero stamp counted up to N; -1 once a
\* measurement stamped 0 has arrived after the N-th of them
count_nonzero(n, stamp) ==
    IF n = -1 THEN -1
    ELSE IF stamp = 0 THEN (IF n = HistLen THEN -1 ELSE n)
    ELSE IF n < HistLen THEN n + 1 ELSE n

\* how many of the latest measurements in a row carry a non-zero stamp,
\* counted up to N
count_run(n, stamp) ==
    IF stamp = 0 THEN 0
    ELSE IF n < HistLen THEN n + 1 ELSE n

Next ==
    \/ /\ Spinning
       /\ \E msg \in MeasurementMsgs :
            /\ configuration_listener_callback(msg)
            /\ nonzero_received' = count_nonzero(nonzero_received, msg.stamp)
            /\ nonzero_run' = count_run(nonzero_run, msg.stamp)
       /\ UNCHANGED <<hand_vars, node_vars, plan_vars, map_vars>>
    \/ /\ Spinning
       /\ \E msg \in SetpointMsgs : setpoint_listener_callback(msg)
       /\ UNCHANGED <<hand_vars, node_vars, seen_vars, plan_vars, map_vars>>
    \/ /\ Spinning
       /\ call_controller
       /\ UNCHANGED <<hand_vars, node_vars, seen_vars, plan_vars, map_vars>>

Spec == Init /\ [][Next]_vars

\* the control node for any value of the controller_type parameter
InitStartup ==
    /\ \E h \in ControlNodeHandedness :
         /\ rod_handedness = h.rod
         /\ control_handedness = h.control
    /\ Startup_control_node(ControllerTypeInputs)
    /\ Init_control_node /\ Default_planner /\ Init_mapper

SpecStartup == InitStartup /\ [][Next]_vars

\* the planning node for any value of its three parameters
InitPlanner ==
    /\ \E h \in ControlNodeHandedness :
         /\ rod_handedness = h.rod
         /\ control_handedness = h.control
    /\ Startup_control_node({DefaultControllerType})
    /\ Init_control_node
    /\ Startup_planner(MaterialInputs, SetpointModeInputs, ImageTypeInputs)
    /\ Init_planner
    /\ Init_mapper

NextPlanner ==
    timer_callback
        /\ UNCHANGED <<hand_vars, node_vars, ctrl_vars, seen_vars, map_vars>>

SpecPlanner == InitPlanner /\ [][NextPlanner]_vars

\* the coordinate mapper, for every combination of handedness signs
InitMapper ==
    /\ rod_handedness \in [1..4 -> Signs]
    /\ control_handedness \in [1..2 -> Signs]
    /\ Startup_control_node({DefaultControllerType})
    /\ Init_control_node /\ Default_planner /\ Init_mapper

NextMapper ==
    \/ /\ round_trip_actuation
       /\ UNCHANGED <<hand_vars, node_vars, ctrl_vars, seen_vars, plan_vars>>
    \/ /\ round_trip_motor
       /\ UNCHANGED <<hand_vars, node_vars, ctrl_vars, seen_vars, plan_vars>>

SpecMapper == InitMapper /\ [][NextMapper]_vars

----------------------------------------------------------------------------
(* Observations used by the properties *)

\* the entries of a log that are publications on a topic
PubsOn(l, topic) ==
    SelectSeq(l, LAMBDA e : e.ev = "publish" /\ e.name = topic)

\* the entries of a log that are calls of a collaborator
CallsOf(l, fn) ==
    SelectSeq(l, LAMBDA e : e.ev = "call" /\ e.name = fn)

AnyPublication(l) == \E i \in 1..Len(l) : l[i].ev = "publish"

\* a step that is one run of the handler
IsMeasurementStep == op' = "measurement" /\ arg' \in MeasurementMsgs
IsControlStep     == cycles' = cycles + 1
IsTick            == ticks' = ticks + 1

\* m0*h0 = m1*h1 and m2*h2 = m3*h3: the two motors of a side twist their
\* rods by the same amount
HandedSymmetric(m) ==
    /\ m[1] * rod_handedness[1] = m[2] * rod_handedness[2]
    /\ m[3] * rod_handedness[3] = m[4] * rod_handedness[4]

----------------------------------------------------------------------------
(* Properties *)

\* C1 (Spec): while fewer than N measurement callbacks have run, some slot of
\* t_hs still holds the sentinel 0 and q_d is still the zero vector; and a
\* control cycle that finds a sentinel in t_hs leaves q_d as it was.
C1_ColdStart ==
    [][ /\ (n_meas < HistLen => AnyZero(t_hs) /\ q_d = Zero3)
        /\ (n_meas' < HistLen => AnyZero(t_hs') /\ q_d' = Zero3)
        /\ (IsControlStep /\ AnyZero(t_hs) => q_d' = q_d) ]_vars

\* a control cycle has run with the buffer partly filled
C1_Witness ==
    /\ op = "control"
    /\ 0 < n_meas /\ n_meas < HistLen
    /\ \E i \in 1..HistLen : t_hs[i] # 0
    /\ q_d = Zero3

\* C2 (SpecMapper): actuation -> motor -> actuation returns the actuation
\* vector it was given, for every handedness.
C2_RoundTripActuation ==
    map_op = "actuation_motor_actuation" => map_out = map_in

\* a non-zero actuation vector taken through the round trip under mixed signs
C2_Witness ==
    /\ map_op = "actuation_motor_actuation"
    /\ map_in = <<-3, 5>>
    /\ rod_handedness = <<1, -1, -1, 1>>
    /\ control_handedness = <<-1, 1>>
    /\ map_out = <<-3, 5>>

\* C3 as stated (SpecMapper): motor -> actuation -> motor returns m whenever
\* m0 = m1 and m2 = m3, for every handedness.
C3_Original ==
    (map_op = "motor_actuation_motor" /\ map_in[1] = map_in[2] /\ map_in[3] = map_in[4])
        => map_out = map_in

\* C3 amended (SpecMapper): motor -> actuation -> motor returns m exactly when
\* m0*h0 = m1*h1 and m2*h2 = m3*h3, for every handedness.
C3_RoundTripMotor ==
    map_op = "motor_actuation_motor" => (map_out = map_in <=> HandedSymmetric(map_in))

\* rods of opposite handedness on both sides, motors turned accordingly
C3_Witness ==
    /\ map_op = "motor_actuation_motor"
    /\ rod_handedness = <<1, -1, -1, 1>>
    /\ map_in = <<2, -2, -2, 2>>
    /\ map_out = map_in

\* the solver call and the result of the tick just made
TickCall == plan_log'[1].data

\* C4 (SpecPlanner): a tick whose solver result has optimality error > 1e-3
\* publishes nothing and leaves setpoint_idx one higher than it found it.
C4_SkipGate ==
    [][ (IsTick /\ TickCall.ret.optimality_error > OptimalityThreshold)
          => /\ ~AnyPublication(plan_log')
             /\ setpoint_idx' = setpoint_idx + 1 ]_vars

\* a tick has rejected a result just above the threshold
C4_Witness ==
    /\ ticks > 0
    /\ plan_log[1].data.ret.optimality_error = OptimalityThreshold + 1
    /\ Len(plan_log) = 1
    /\ setpoint_idx = ticks

\* C5 (SpecPlanner): a tick whose solver result has optimality error <= 1e-3
\* publishes exactly one setpoint message carrying the configuration, pose,
\* steady-state actuation and optimality error of that result, the solve was
\* for the target at the index the tick found, and setpoint_idx ends one
\* higher.
C5_AcceptPath ==
    [][ (IsTick /\ TickCall.ret.optimality_error <= OptimalityThreshold)
          => LET res  == TickCall.ret
                 sent == PubsOn(plan_log', "setpoint")
             IN  /\ Len(sent) = 1
                 /\ Len(SelectSeq(plan_log', LAMBDA e : e.ev = "publish")) = 1
                 /\ sent[1].data.q_des.kappa_b = res.q_des[1]
                 /\ sent[1].data.q_des.sigma_sh = res.q_des[2]
                 /\ sent[1].data.q_des.sigma_a = res.q_des[3]
                 /\ sent[1].data.chiee_des.x = res.chiee_des[1]
                 /\ sent[1].data.chiee_des.y = res.chiee_des[2]
                 /\ sent[1].data.chiee_des.theta = res.chiee_des[3]
                 /\ sent[1].data.phi_ss = res.phi_ss
                 /\ sent[1].data.optimality_error = res.optimality_error
                 /\ TickCall.args.idx = setpoint_idx
                 /\ (setpoint_idx < NumTargets
                       => TickCall.args.pee_des = pee_des_sps[setpoint_idx + 1])
                 /\ setpoint_idx' = setpoint_idx + 1 ]_vars

\* a result exactly at the threshold has been published
C5_Witness ==
    /\ ticks > 0
    /\ Len(plan_log) = 2
    /\ plan_log[2].ev = "publish"
    /\ plan_log[2].data.optimality_error = OptimalityThreshold
    /\ plan_log[2].data.q_des.sigma_sh = 1

\* C6 (SpecPlanner): setpoint_idx equals the number of ticks made, whether
\* they published or skipped and also past the end of the target list; each
\* tick indexes the list with the setpoint_idx it found.
C6_IndexProgression ==
    /\ setpoint_idx = ticks
    /\ (ticks > 0 => plan_log[1].data.args.idx = ticks - 1)

\* a tick past the end of the list has indexed it there and skipped
C6_Witness ==
    /\ ticks > NumTargets
    /\ setpoint_idx = ticks
    /\ plan_log[1].data.args.idx >= NumTargets
    /\ Len(plan_log) = 1

\* C7 (Spec): q_des, chiee_des and phi_ss are always the fields of the held
\* setpoint_msg, and right after a setpoint callback the held message is the
\* one that arrived.
C7_SetpointWholesale ==
    /\ q_des = <<setpoint_msg.q_des.kappa_b, setpoint_msg.q_des.sigma_sh,
                 setpoint_msg.q_des.sigma_a>>
    /\ chiee_des = <<setpoint_msg.chiee_des.x, setpoint_msg.chiee_des.y,
                     setpoint_msg.chiee_des.theta>>
    /\ phi_ss = setpoint_msg.phi_ss
    /\ (op = "setpoint" => setpoint_msg = arg)

\* a setpoint has replaced the start-up default after the loop has run
C7_Witness ==
    /\ op = "setpoint"
    /\ cycles > 0
    /\ q_des = <<11, 12, 13>>
    /\ chiee_des = <<14, 15, 16>>
    /\ phi_ss = <<17, 18>>

\* C8 (Spec): a control cycle publishes one message on
\* setpoint_in_control_loop, equal to the held setpoint except for the stamp,
\* and leaves setpoint_msg (stamp included), q_des, chiee_des and phi_ss as
\* they were.
C8_RepublishKeepsSetpoint ==
    [][ IsControlStep
          => LET sent == PubsOn(log', "setpoint_in_control_loop")
             IN  /\ Len(sent) = 1
                 /\ [sent[1].data EXCEPT !.q_des.stamp = setpoint_msg.q_des.stamp]
                        = setpoint_msg
                 /\ setpoint_msg' = setpoint_msg
                 /\ q_des' = q_des
                 /\ chiee_des' = chiee_des
                 /\ phi_ss' = phi_ss ]_vars

\* a received setpoint has been re-published under a fresh stamp
C8_Witness ==
    /\ op = "control"
    /\ setpoint_msg \in SetpointMsgs
    /\ LET sent == PubsOn(log, "setpoint_in_control_loop")
       IN  /\ Len(sent) = 1
           /\ sent[1].data.q_des.stamp # setpoint_msg.q_des.stamp
           /\ sent[1].data.phi_ss = setpoint_msg.phi_ss

\* C9 (Spec): before the first control cycle the controller state is zero;
\* only a control cycle changes it, and what the cycle leaves is the state
\* the saturator returned, computed from the state the controller returned.
C9_ControllerStateLifecycle ==
    [][ /\ (cycles = 0 => controller_state = Zero2)
        /\ (controller_state' # controller_state => IsControlStep)
        /\ (IsControlStep
              => LET ctl == CallsOf(log', "control_fn")
                     sat == CallsOf(log', "saturate_control_inputs")
                 IN  /\ Len(ctl) = 1 /\ Len(sat) = 1
                     /\ ctl[1].data.args.controller_state = controller_state
                     /\ sat[1].data.args.controller_state
                            = ctl[1].data.ret.integral_error
                     /\ controller_state' = sat[1].data.ret.integral_error) ]_vars

\* the state left by two control cycles is still held after a measurement
C9_Witness ==
    /\ op = "measurement"
    /\ cycles = 2
    /\ controller_state = <<1, -2>>

\* C10 (Spec): a measurement callback keeps both history arrays at length N,
\* moves every entry one slot towards the front, drops the entry of slot 0
\* and puts the arriving stamp and configuration in the last slot.
C10_HistoryFifo ==
    [][ IsMeasurementStep
          => /\ Len(t_hs') = HistLen /\ Len(q_hs') = HistLen
             /\ \A i \in 1..(HistLen - 1) :
                    t_hs'[i] = t_hs[i + 1] /\ q_hs'[i] = q_hs[i + 1]
             /\ t_hs'[HistLen] = arg'.stamp
             /\ q_hs'[HistLen] = <<arg'.kappa_b, arg'.sigma_sh, arg'.sigma_a>> ]_vars

\* a full buffer after an entry has been evicted
C10_Witness ==
    /\ op = "measurement"
    /\ n_meas = HistLen
    /\ t_hs[HistLen - 1] = 1 /\ t_hs[HistLen] = 2
    /\ q_hs[HistLen - 1] = <<4, 5, 6>> /\ q_hs[HistLen] = <<1, 2, 3>>
    /\ t_hs[1] # 0

\* C11 as stated (Spec): once N or more measurements have been received,
\* the stamps in t_hs are non-decreasing from the oldest slot to the newest,
\* whatever stamps the arriving messages carry.
C11_Original ==
    n_meas = HistLen
        => \A i \in 1..(HistLen - 1) : t_hs[i] <= t_hs[i + 1]

\* C12 (SpecStartup): when controller_type names none of the supported
\* variants, construction ends in an error before the control timer exists:
\* no control cycle ever runs, no motor command is sent and nothing is
\* published.
C12_UnknownControllerFatal ==
    controller_type \notin ControllerTypes
        => /\ init_error = "NotImplementedError"
           /\ ~control_timer
           /\ cycles = 0
           /\ motor_cmds = 0
           /\ op = "init"
           /\ log = <<>>

C12_Witness ==
    /\ controller_type = "P_I_D"
    /\ init_error = "NotImplementedError"
    /\ ~control_timer

\* C13 as stated (SpecPlanner): whenever hsa_material, setpoint_mode or
\* image_type holds an unsupported value, the planner's construction fails and
\* its timer is never created.
C13_Original ==
    (\/ hsa_material \notin Materials
     \/ setpoint_mode \notin SetpointModes
     \/ image_type \notin ImageTypes)
        => plan_init_error # "none" /\ ~plan_timer /\ ticks = 0

\* C13 amended (SpecPlanner): construction fails before the timer is created
\* when hsa_material or setpoint_mode is unsupported, or when setpoint_mode is
\* image and image_type is unsupported; no tick then runs and nothing is
\* published.  In manual mode image_type is never read.
C13_UnknownPlannerConfigFatal ==
    (\/ hsa_material \notin Materials
     \/ setpoint_mode \notin SetpointModes
     \/ (setpoint_mode = "image" /\ image_type \notin ImageTypes))
        => /\ plan_init_error # "none"
           /\ ~plan_timer
           /\ ticks = 0
           /\ setpoint_idx = 0
           /\ plan_log = <<>>

C13_Witness ==
    /\ hsa_material = "fpu"
    /\ setpoint_mode = "file"
    /\ plan_init_error = "ValueError: Unknown setpoint mode"
    /\ ~plan_timer

\* C14 (Spec): the controller invocation of a control cycle is given the q,
\* q_des, end-effector target and phi_ss held when the cycle starts; q is
\* what the last measurement callback carried and is written by nothing
\* else, the setpoint fields are what the last setpoint callback carried and
\* are written by nothing else, and before any callback they are the
\* start-up defaults.
C14_LastValueWins ==
    [][ /\ (op = "init"
              => /\ q = Zero3 /\ q_des = Q_DES_INIT
                 /\ chiee_des = Zero3 /\ phi_ss = Zero2)
        /\ (IsControlStep
              => LET ctl == CallsOf(log', "control_fn")
                 IN  /\ Len(ctl) = 1
                     /\ ctl[1].data.args.q = q
                     /\ ctl[1].data.args.q_des = q_des
                     /\ ctl[1].data.args.pee_des = <<chiee_des[1], chiee_des[2]>>
                     /\ ctl[1].data.args.phi_ss = phi_ss)
        /\ (op' = "measurement"
              => q' = <<arg'.kappa_b, arg'.sigma_sh, arg'.sigma_a>>)
        /\ (op' # "measurement" => q' = q)
        /\ (op' = "setpoint"
              => /\ q_des' = <<arg'.q_des.kappa_b, arg'.q_des.sigma_sh,
                               arg'.q_des.sigma_a>>
                 /\ chiee_des' = <<arg'.chiee_des.x, arg'.chiee_des.y,
                                   arg'.chiee_des.theta>>
                 /\ phi_ss' = arg'.phi_ss)
        /\ (op' # "setpoint"
              => q_des' = q_des /\ chiee_des' = chiee_des /\ phi_ss' = phi_ss)
      ]_vars

\* the second cycle ran on the newer of two different measurements and on a
\* received setpoint
C14_Witness ==
    /\ op = "control"
    /\ cycles = 2
    /\ q_hs[HistLen - 1] = <<1, 2, 3>>
    /\ CallsOf(log, "control_fn")[1].data.args.q = <<4, 5, 6>>
    /\ CallsOf(log, "control_fn")[1].data.args.q_des = <<11, 12, 13>>
    /\ CallsOf(log, "control_fn")[1].data.args.phi_ss = <<17, 18>>

\* the observable steps of one control cycle, in order
CycleSteps ==
    << <<"call", "compute_q_d">>,
       <<"read", "present_motor_angles">>,
       <<"publish", "actuation_coordinates">>,
       <<"call", "control_fn">>,
       <<"publish", "setpoint_in_control_loop">>,
       <<"publish", "unsaturated_control_input">>,
       <<"call", "saturate_control_inputs">>,
       <<"publish", "saturated_control_input">>,
       <<"command", "set_motor_goal_angles">> >>

StepsOf(l) == [k \in 1..Len(l) |-> <<l[k].ev, l[k].name>>]

IsVelocityPub(e) == e.ev = "publish" /\ e.name = "configuration_velocity"

\* C15 (Spec): what a control cycle does is, in this order and once each:
\* velocity estimation (with its telemetry, when it publishes, directly after
\* it), motor read, actuation-coordinates publication, controller call,
\* setpoint re-publication, unsaturated publication, saturation, saturated
\* publication, motor goal command.
C15_CycleStepOrder ==
    op = "control"
        => /\ StepsOf(SelectSeq(log, LAMBDA e : ~IsVelocityPub(e))) = CycleSteps
           /\ \A k \in 1..Len(log) : IsVelocityPub(log[k]) => k = 2

\* a cycle on a populated history: ten steps, the motor command last
C15_Witness ==
    /\ op = "control"
    /\ Len(log) = 10
    /\ IsVelocityPub(log[2])
    /\ log[9].name = "saturated_control_input"
    /\ log[10].ev = "command"

\* C16 (Spec): in a control cycle the unsaturated command published is the
\* controller's output times the handedness signs, the saturator is called
\* on that published command, the saturated command published is the
\* saturator's output, and the motor goal is
\* map_actuation_coordinates_to_motor_angles of it.
C16_CommandPipeline ==
    op = "control"
        => LET ctl   == CallsOf(log, "control_fn")[1].data
               unsat == PubsOn(log, "unsaturated_control_input")
               sat   == CallsOf(log, "saturate_control_inputs")[1].data
               satp  == PubsOn(log, "saturated_control_input")
               goal  == SelectSeq(log, LAMBDA e : e.ev = "command")
           IN  /\ Len(unsat) = 1 /\ Len(satp) = 1 /\ Len(goal) = 1
               /\ unsat[1].data
                    = [i \in 1..2 |-> control_handedness[i] * ctl.ret.phi_des[i]]
               /\ sat.args.phi_des = unsat[1].data
               /\ satp[1].data = sat.ret.phi_sat
               /\ goal[1].data
                    = map_actuation_coordinates_to_motor_angles(satp[1].data)

\* a cycle whose command was sign-flipped and then clipped
C16_Witness ==
    /\ op = "control"
    /\ control_handedness = <<-1, 1>>
    /\ CallsOf(log, "control_fn")[1].data.ret.phi_des = <<6, -2>>
    /\ PubsOn(log, "unsaturated_control_input")[1].data = <<-6, -2>>
    /\ PubsOn(log, "saturated_control_input")[1].data = <<-4, -2>>

\* C17 (Spec): in a control cycle the controller is called with the state
\* the node holds, the saturator with the state the controller returned, and
\* the node then holds the state the saturator returned; every other step,
\* the two subscription callbacks included, leaves the held state as it is,
\* so the next cycle's controller receives the previous saturator's state.
C17_StateThreading ==
    [][ /\ (IsControlStep
              => /\ CallsOf(log', "control_fn")[1].data.args.controller_state
                      = controller_state
                 /\ CallsOf(log', "saturate_control_inputs")[1].data.args.controller_state
                      = CallsOf(log', "control_fn")[1].data.ret.integral_error
                 /\ controller_state'
                      = CallsOf(log', "saturate_control_inputs")[1].data.ret.integral_error)
        /\ (op' \in {"measurement", "setpoint"}
              => controller_state' = controller_state)
        /\ (cycles' = cycles => controller_state' = controller_state) ]_vars

\* the second cycle's controller got the state the first cycle's saturator
\* had shrunk, with callbacks in between
C17_Witness ==
    /\ op = "control"
    /\ cycles = 2
    /\ n_meas > 0
    /\ CallsOf(log, "control_fn")[1].data.args.controller_state = <<1, -2>>

\* C18 (Spec): a measurement callback writes q, t_hs and q_hs only, a
\* setpoint callback writes setpoint_msg, q_des, chiee_des and phi_ss only;
\* neither changes q_d or the controller state, publishes or commands the
\* motors.
C18_CallbackWriteSets ==
    [][ /\ (op' = "measurement"
              => /\ UNCHANGED <<setpoint_msg, q_des, chiee_des, phi_ss>>
                 /\ UNCHANGED <<q_d, controller_state, motor_cmds, cycles>>
                 /\ log' = <<>>)
        /\ (op' = "setpoint"
              => /\ UNCHANGED <<q, t_hs, q_hs>>
                 /\ UNCHANGED <<q_d, controller_state, motor_cmds, cycles>>
                 /\ log' = <<>>) ]_vars

\* a setpoint arriving when history, velocity estimate and controller state
\* are all populated
C18_Witness ==
    /\ op = "setpoint"
    /\ n_meas = HistLen
    /\ q_d # Zero3
    /\ controller_state # Zero2
    /\ q # Zero3

\* C19 as stated (Spec): every control cycle calls compute_q_d once and the
\* value it returns is published on configuration_velocity.
C19_Original ==
    op = "control"
        => /\ Len(CallsOf(log, "compute_q_d")) = 1
           /\ PubsOn(log, "configuration_velocity")
                = << Pub("configuration_velocity",
                         CallsOf(log, "compute_q_d")[1].data.ret) >>

\* C20 as stated (SpecPlanner): over the first L ticks the k-th tick solves
\* for the k-th target of the list, a rejecting tick advances the index like
\* any other, and a target whose solution was rejected is not solved for
\* again by any later tick.
C20_Original ==
    /\ \A k \in 1..Len(attempted) :
          /\ k <= NumTargets => attempted[k].pee_des = pee_des_sps[k]
          /\ attempted[k].idx = k - 1
    /\ \A j \in 1..Len(attempted) : \A k \in (j + 1)..Len(attempted) :
          attempted[j].rejected => attempted[k].pee_des # attempted[j].pee_des

\* C21 (SpecPlanner): a planner that started holds the solver its
\* configuration determines (manual and fpu: root finding capped at 10000
\* iterations; manual and epu: projected descent capped at 10000; image mode
\* with either material: projected descent capped at 250), and no tick
\* changes the solver, the parameter set or the target list.
C21_StrategyFixed ==
    [][ /\ (plan_timer /\ setpoint_mode = "manual" /\ hsa_material = "fpu"
              => planning_strategy
                   = [solver |-> "scipy_rootfinding", maxiter |-> 10000])
        /\ (plan_timer /\ setpoint_mode = "manual" /\ hsa_material = "epu"
              => planning_strategy
                   = [solver |-> "projected_descent", maxiter |-> 10000])
        /\ (plan_timer /\ setpoint_mode = "image"
              => planning_strategy
                   = [solver |-> "projected_descent", maxiter |-> 250])
        /\ planning_strategy' = planning_strategy
        /\ plan_params' = plan_params
        /\ target_list' = target_list ]_vars

\* an fpu planner in image mode after a rejected and an accepted solve
C21_Witness ==
    /\ hsa_material = "fpu"
    /\ setpoint_mode = "image"
    /\ planning_strategy = [solver |-> "projected_descent", maxiter |-> 250]
    /\ plan_params = "PARAMS_FPU_CONTROL"
    /\ Len(attempted) = 2
    /\ attempted[1].rejected
    /\ ~attempted[2].rejected
    /\ target_list = pee_des_sps

\* C22 (Spec): in every reachable state each slot of the history holds the
\* stamp and the configuration of one and the same measurement message, or
\* the initial zeros in both arrays, and q is the configuration in the
\* newest slot.
C22_HistoryAligned ==
    /\ Len(t_hs) = HistLen /\ Len(q_hs) = HistLen
    /\ \A i \in 1..HistLen :
          \/ t_hs[i] = 0 /\ q_hs[i] = Zero3
          \/ \E m \in MeasurementMsgs :
                /\ t_hs[i] = m.stamp
                /\ q_hs[i] = <<m.kappa_b, m.sigma_sh, m.sigma_a>>
    /\ q = q_hs[HistLen]

\* a history holding two different messages, after control cycles and a
\* setpoint
C22_Witness ==
    /\ n_meas = HistLen
    /\ cycles > 0
    /\ op = "setpoint"
    /\ t_hs[HistLen] = 1 /\ q_hs[HistLen] = <<4, 5, 6>>
    /\ t_hs[HistLen - 1] = 2 /\ q_hs[HistLen - 1] = <<1, 2, 3>>
    /\ q = <<4, 5, 6>>

\* C24 (Spec): the number of motor goal commands issued equals the number of
\* control cycles run, the warm-up having issued none; a control cycle issues
\* exactly one, and no other step issues any.
C24_MotorsOnlyByCycle ==
    [][ /\ motor_cmds = cycles
        /\ motor_cmds' = cycles'
        /\ (op = "init" => motor_cmds = 0)
        /\ (IsControlStep
              => /\ motor_cmds' = motor_cmds + 1
                 /\ Len(SelectSeq(log', LAMBDA e : e.ev = "command")) = 1)
        /\ (~IsControlStep => motor_cmds' = motor_cmds)
        /\ (op' \in {"measurement", "setpoint"}
              => SelectSeq(log', LAMBDA e : e.ev = "command") = <<>>) ]_vars

\* two cycles, two commands, with both kinds of callback having run
C24_Witness ==
    /\ cycles = 2
    /\ motor_cmds = 2
    /\ n_meas > 0
    /\ op = "setpoint"

\* a cycle's velocity estimation took the fallback: nothing went out on
\* configuration_velocity
TookFallback(l) == PubsOn(l, "configuration_velocity") = <<>>

\* C23 as stated (Spec): once N measurements with a non-zero stamp have been
\* received and no measurement stamped 0 has arrived since, a control cycle
\* computes its velocity from the history and does not take the fallback.
C23_Original ==
    (op = "control" /\ nonzero_received = HistLen) => ~TookFallback(log)

\* C23 amended (Spec): the history is free of the sentinel exactly when the
\* N most recent measurements all carry a non-zero stamp; a control cycle
\* run then computes its velocity from the history, and a control cycle run
\* otherwise takes the fallback, however many measurements have been
\* received.
C23_ColdStartBySentinel ==
    /\ (nonzero_run = HistLen) <=> ~AnyZero(t_hs)
    /\ op = "control"
         => /\ CallsOf(log, "compute_q_d")[1].data.args.t_hs = t_hs
            /\ nonzero_run = HistLen
                 => PubsOn(log, "configuration_velocity")
                      = << Pub("configuration_velocity", q_d) >>
            /\ nonzero_run < HistLen => TookFallback(log)

\* N non-zero stamps have been received, one stamped 0 among the latest N is
\* still held, and the cycle took the fallback
C23_Witness ==
    /\ op = "control"
    /\ n_meas = HistLen
    /\ nonzero_received = HistLen
    /\ nonzero_run < HistLen
    /\ t_hs[1] = 0
    /\ TookFallback(log)

====
